---- MODULE Spec2Model ----
(***************************************************************************)
(* Model of the weather aggregation endpoint (the GET route handler) of    *)
(* cyberagellc-dev/weather.                                                *)
(*                                                                         *)
(* Strings are sequences of tokens.  Text a caller or the configuration    *)
(* supplies (the city, the credential) is one token per character;         *)
(* literal pieces of the program text (the base URL, "&appid=", the        *)
(* error messages) are one token each.  Numbers the provider sends as      *)
(* decimals (temperatures, wind speeds, the UV value) are integers         *)
(* counting tenths; visibility is an integer number of metres.             *)
(*                                                                         *)
(* Spec is the handler serving one request.  SpecClient is the page        *)
(* component (WeatherApp) driven by its user, the handler standing behind  *)
(* it as the set of replies it can give to the client's request.           *)
(***************************************************************************)
EXTENDS Integers, Sequences, FiniteSets, TLC

VARIABLES
  apiKey,          \* OPENWEATHER_API_KEY, read from the environment at load
  pc,              \* position of the handler: the await it is suspended at
  city,            \* searchParams.get("city")
  unitsParam,      \* searchParams.get("units")
  units,           \* the handler's `units` (after the default)
  weatherFetch,    \* what the current-conditions fetch produced
  weatherData,     \* the parsed current-conditions payload
  forecastFetch,   \* what the forecast fetch produced
  uvFetch,         \* what the UV-index fetch produced
  hourlyForecast,  \* the handler's `hourlyForecast`
  uvIndex,         \* the handler's `uvIndex`
  calls,           \* outbound requests issued so far, in order
  console,         \* diagnostic messages emitted so far, in order
  response,        \* the response the handler returned
  searchQuery,     \* WeatherApp: the text of the search box
  uiWeatherData,   \* WeatherApp: `weatherData`, the record on display
  isLoading,       \* WeatherApp: `isLoading`
  uiError,         \* WeatherApp: `error`
  uiUnits,         \* WeatherApp: `units`, the selected unit preference
  inflight,        \* WeatherApp: the request awaiting its reply
  lastSearch       \* the city of the last submitted search

\* the state of the page component
cvars == <<searchQuery, uiWeatherData, isLoading, uiError, uiUnits, inflight,
           lastSearch>>

vars == <<apiKey, pc, city, unitsParam, units, weatherFetch, weatherData,
          forecastFetch, uvFetch, hourlyForecast, uvIndex, calls, console,
          response, cvars>>

----------------------------------------------------------------------------
(* Bounds of the model *)

\* longest upstream forecast list the provider is modelled to send
MaxForecastLen == 10

----------------------------------------------------------------------------
(* Values *)

\* a query parameter or environment variable that is not set (null/undefined)
Absent == [present |-> FALSE, text |-> <<>>]
Str(s) == [present |-> TRUE, text |-> s]

\* an optional numeric field of a provider payload
NoNum == [present |-> FALSE, val |-> 0]
Num(n) == [present |-> TRUE, val |-> n]

\* JavaScript truthiness of a string-or-null value: null and "" are falsy
Truthy(v) == v.present /\ v.text # <<>>

\* `x || d` on an optional number: undefined and 0 are both falsy
OrDefault(x, d) == IF x.present /\ x.val # 0 THEN x.val ELSE d

Min(a, b) == IF a < b THEN a ELSE b

\* Math.round of the rational n/d (d > 0): floor(n/d + 1/2), ties towards +oo
MathRound(n, d) == (2 * n + d) \div (2 * d)

\* String.prototype.trim on a token string (whitespace is the " " token)
RECURSIVE TrimLeft(_)
TrimLeft(s) == IF s # <<>> /\ Head(s) = " " THEN TrimLeft(Tail(s)) ELSE s
RECURSIVE TrimRight(_)
TrimRight(s) ==
  IF s # <<>> /\ s[Len(s)] = " " THEN TrimRight(SubSeq(s, 1, Len(s) - 1)) ELSE s
Trim(s) == TrimRight(TrimLeft(s))

\* s.includes(pat)
Occurs(s, pat, i) == i + Len(pat) - 1 <= Len(s) /\ SubSeq(s, i, i + Len(pat) - 1) = pat
Includes(s, pat) == \E i \in 1..Len(s) : Occurs(s, pat, i)

\* String.prototype.replace with a string pattern: the FIRST occurrence only
ReplaceFirst(s, pat, rep) ==
  IF ~Includes(s, pat) THEN s
  ELSE LET i == CHOOSE k \in 1..Len(s) :
                  Occurs(s, pat, k) /\ \A j \in 1..(k - 1) : ~Occurs(s, pat, j)
       IN SubSeq(s, 1, i - 1) \o rep \o SubSeq(s, i + Len(pat), Len(s))

\* encodeURIComponent, per character: unreserved characters are kept, the
\* others are percent-encoded
EncodeChar(c) ==
  CASE c = " " -> "%20"
    [] c = "&" -> "%26"
    [] c = "=" -> "%3D"
    [] OTHER   -> c
EncodeURIComponent(s) == [i \in DOMAIN s |-> EncodeChar(s[i])]

----------------------------------------------------------------------------
(* Configuration and request inputs *)

\* the provider's key length the handler validates against
KeyLen == 32

KeyOfLen(n) == [i \in 1..n |-> IF i % 2 = 1 THEN "a" ELSE "7"]
ValidKey == KeyOfLen(KeyLen)

\* process.env.OPENWEATHER_API_KEY: unset, empty, too short, right, too long
KeyConfigs ==
  {Absent, Str(<<>>), Str(KeyOfLen(KeyLen - 1)), Str(ValidKey), Str(KeyOfLen(KeyLen + 1))}

\* the city parameter: missing, empty, blank, plain names, and a city that
\* spells the characters of the credential
CityParams ==
  {Absent, Str(<<>>), Str(<<" ">>), Str(<<"R", "o", "m", "e">>),
   Str(<<"S", "t", " ", "I", "v", "e", "s">>), Str(ValidKey)}

UnitsParams ==
  {Absent, Str(<<>>), Str(<<"imperial">>), Str(<<"metric">>), Str(<<"standard">>)}

OPENWEATHER_BASE_URL == "https://api.openweathermap.org/data/2.5"

WeatherUrl(c, key, u) ==
  <<OPENWEATHER_BASE_URL, "/weather?q=">> \o EncodeURIComponent(c)
    \o <<"&appid=">> \o key \o <<"&units=">> \o u

ForecastUrl(c, key, u) ==
  <<OPENWEATHER_BASE_URL, "/forecast?q=">> \o EncodeURIComponent(c)
    \o <<"&appid=">> \o key \o <<"&units=">> \o u

UvUrl(lat, lon, key) ==
  <<OPENWEATHER_BASE_URL, "/uvi?lat=", lat, "&lon=", lon, "&appid=">> \o key

\* what the handler logs in place of a URL
Redact(url, key) == ReplaceFirst(url, key, <<"[API_KEY]">>)

----------------------------------------------------------------------------
(* Responses *)

NoResponse == [status |-> 0, threw |-> FALSE, body |-> [kind |-> "none"]]
ErrorBody(msg) == [kind |-> "error", error |-> msg]

\* the statuses a Response may not carry together with a body
NullBodyStatus == {101, 103, 204, 205, 304}

\* NextResponse.json(body, {status}): builds a Response with a JSON body.
\* The Response constructor rejects a status outside 200..599 (RangeError)
\* and a body on a null-body status (TypeError).
NextResponseJson(body, status) ==
  IF status \notin 200..599 \/ status \in NullBodyStatus
  THEN [status |-> 0, threw |-> TRUE, body |-> [kind |-> "none"]]
  ELSE [status |-> status, threw |-> FALSE, body |-> body]

E_CITY_REQUIRED == <<"City parameter is required">>
E_KEY_MISSING == <<"OpenWeatherMap API key not configured">>
E_KEY_FORMAT == <<"Invalid API key format. Please check your OPENWEATHER_API_KEY.">>
E_UNAUTHORIZED ==
  <<"Invalid API key. Please check your OpenWeatherMap API key and ensure it's activated.">>
E_NOT_FOUND == <<"City not found. Please check the ", "spelling", " and try again.">>
E_RATE_LIMIT == <<"API rate limit exceeded. Please try again later.">>
E_SERVICE(status) ==
  <<"Weather service error (", ToString(status), "). Please try again later.">>
E_FETCH_FAILED ==
  <<"Failed to fetch weather data. Please check your internet connection and try again.">>

\* the handler's outer catch: log the error, answer 500
CatchAll == NextResponseJson(ErrorBody(E_FETCH_FAILED), 500)

Log(level, label, text) == [level |-> level, label |-> label, text |-> text]

----------------------------------------------------------------------------
(* The handler, up to its first await *)

\* no request awaiting its reply
NoRequest == [origin |-> "none", city |-> <<>>, units |-> "", typed |-> <<>>]

\* no record on display (weatherData is null)
NoRecord == [kind |-> "none"]

\* WeatherApp's useState initial values
ClientInit ==
  /\ searchQuery = <<>>
  /\ uiWeatherData = NoRecord
  /\ isLoading = FALSE
  /\ uiError = <<>>
  /\ uiUnits = "imperial"
  /\ inflight = NoRequest
  /\ lastSearch = Absent

Init ==
  /\ ClientInit
  /\ apiKey \in KeyConfigs
  /\ pc = "start"
  /\ city = Absent
  /\ unitsParam = Absent
  /\ units = <<>>
  /\ weatherFetch = [kind |-> "none"]
  /\ weatherData = [kind |-> "none"]
  /\ forecastFetch = [kind |-> "none"]
  /\ uvFetch = [kind |-> "none"]
  /\ hourlyForecast = <<>>
  /\ uvIndex = 0
  /\ calls = <<>>
  /\ console = <<>>
  /\ response = NoResponse

\* searchParams.get("units") || "imperial"
DefaultUnits(u) == IF Truthy(u) THEN u.text ELSE <<"imperial">>

\* a faulty variant of Precondition: checks the credential before the city
PreconditionKeyFirst(c, key) ==
  IF ~Truthy(key) THEN NextResponseJson(ErrorBody(E_KEY_MISSING), 500)
  ELSE IF Len(key.text) # KeyLen THEN NextResponseJson(ErrorBody(E_KEY_FORMAT), 500)
  ELSE IF ~Truthy(c) THEN NextResponseJson(ErrorBody(E_CITY_REQUIRED), 400)
  ELSE NoResponse

\* a faulty variant of Precondition: the length of the credential is not checked
PreconditionNoLength(c, key) ==
  IF ~Truthy(c) THEN NextResponseJson(ErrorBody(E_CITY_REQUIRED), 400)
  ELSE IF ~Truthy(key) THEN NextResponseJson(ErrorBody(E_KEY_MISSING), 500)
  ELSE NoResponse

\* the precondition checks: the response they return, or NoResponse
Precondition(c, key) ==
  IF ~Truthy(c) THEN NextResponseJson(ErrorBody(E_CITY_REQUIRED), 400)
  ELSE IF ~Truthy(key) THEN NextResponseJson(ErrorBody(E_KEY_MISSING), 500)
  ELSE IF Len(key.text) # KeyLen THEN NextResponseJson(ErrorBody(E_KEY_FORMAT), 500)
  ELSE NoResponse

\* GET, from its entry to `await fetch(weatherUrl)`
GET_Start ==
  /\ pc = "start"
  /\ \E c \in CityParams, u \in UnitsParams :
       LET un  == DefaultUnits(u)
           pre == Precondition(c, apiKey)
       IN /\ city' = c
          /\ unitsParam' = u
          /\ units' = un
          /\ IF pre # NoResponse
             THEN /\ response' = pre
                  /\ pc' = "done"
                  /\ UNCHANGED <<calls, console>>
             ELSE LET url == WeatherUrl(c.text, apiKey.text, un)
                  IN /\ console' = Append(console,
                           Log("log", "Fetching weather from:", Redact(url, apiKey.text)))
                     /\ calls' = Append(calls, [endpoint |-> "weather", url |-> url])
                     /\ pc' = "awaitWeather"
                     /\ UNCHANGED response
  /\ UNCHANGED cvars
  /\ UNCHANGED <<apiKey, weatherFetch, weatherData, forecastFetch, uvFetch,
                 hourlyForecast, uvIndex>>

----------------------------------------------------------------------------
(* The current-conditions call *)

\* what a fetch produces: a rejected promise (kind "networkError") or a
\* response with a status and a body that can or cannot be read and parsed
NetworkError ==
  [kind |-> "networkError", status |-> 0, readable |-> FALSE, json |-> FALSE,
   data |-> [kind |-> "none"]]
Responded(status, readable, json, data) ==
  [kind |-> "response", status |-> status, readable |-> readable, json |-> json,
   data |-> data]

\* Response.ok
Ok(r) == r.status \in 200..299

NoCoord == [present |-> FALSE, lat |-> "", lon |-> ""]
Coord(lat, lon) == [present |-> TRUE, lat |-> lat, lon |-> lon]

\* a current-conditions payload; `complete` is FALSE when one of the blocks
\* the transform dereferences (sys, main, weather[0]) is missing
WeatherPayload(complete, wind, visibility, coord) ==
  [kind |-> "weather", complete |-> complete, name |-> "Rome", country |-> "IT",
   temp |-> 215, feels_like |-> -5, humidity |-> 60, pressure |-> 1013,
   main |-> "Clouds", description |-> "broken clouds", icon |-> "04d",
   wind |-> wind, visibility |-> visibility, coord |-> coord]

WindSamples == {NoNum, Num(0), Num(15), Num(27), Num(100)}
VisibilitySamples == {NoNum, Num(0), Num(800), Num(10000)}
CoordSamples == {NoCoord, Coord("41.9", "12.5"), Coord("-33.9", "151.2")}

WeatherPayloads ==
  {WeatherPayload(TRUE, w, v, c) :
     w \in WindSamples, v \in VisibilitySamples, c \in CoordSamples}
  \cup {WeatherPayload(FALSE, Num(27), Num(10000), c) : c \in CoordSamples}

\* statuses the provider is modelled to answer the mandatory call with
UpstreamStatuses == {200, 304, 400, 401, 404, 429, 500, 503}

WeatherOutcomes ==
  {NetworkError}
  \cup {Responded(s, rd, FALSE, [kind |-> "none"]) :
          s \in UpstreamStatuses, rd \in BOOLEAN}
  \cup {Responded(200, TRUE, TRUE, d) : d \in WeatherPayloads}

\* the mapping of a non-success status of the mandatory call
WeatherErrorResponse(status) ==
  IF status = 401 THEN NextResponseJson(ErrorBody(E_UNAUTHORIZED), 401)
  ELSE IF status = 404 THEN NextResponseJson(ErrorBody(E_NOT_FOUND), 404)
  ELSE IF status = 429 THEN NextResponseJson(ErrorBody(E_RATE_LIMIT), 429)
  ELSE NextResponseJson(ErrorBody(E_SERVICE(status)), status)

\* the outer catch block
Caught(what) ==
  /\ console' = Append(console, Log("error", "Weather API error:", <<what>>))
  /\ response' = CatchAll
  /\ pc' = "done"

\* GET, from the settling of fetch(weatherUrl) to `await fetch(forecastUrl)`
GET_WeatherResponse ==
  /\ pc = "awaitWeather"
  /\ \E r \in WeatherOutcomes :
       /\ weatherFetch' = r
       /\ IF r.kind = "networkError"
          THEN /\ Caught("TypeError: fetch failed")
               /\ UNCHANGED <<weatherData, calls>>
          ELSE IF ~Ok(r)
          THEN /\ UNCHANGED <<weatherData, calls>>
               /\ IF ~r.readable
                  THEN Caught("TypeError: terminated")
                  ELSE LET res  == WeatherErrorResponse(r.status)
                           seen == Append(console,
                                     Log("error", "Weather API error response:",
                                         <<"upstream error body">>))
                       IN /\ pc' = "done"
                          /\ IF res.threw
                             THEN /\ response' = CatchAll
                                  /\ console' = Append(seen,
                                       Log("error", "Weather API error:",
                                           <<"TypeError: invalid response status">>))
                             ELSE /\ response' = res
                                  /\ console' = seen
          ELSE IF ~(r.readable /\ r.json)
          THEN /\ Caught("SyntaxError: unexpected end of JSON input")
               /\ UNCHANGED <<weatherData, calls>>
          ELSE LET url == ForecastUrl(city.text, apiKey.text, units)
               IN /\ weatherData' = r.data
                  /\ console' = Append(console,
                        Log("log", "Fetching forecast from:", Redact(url, apiKey.text)))
                  /\ calls' = Append(calls, [endpoint |-> "forecast", url |-> url])
                  /\ pc' = "awaitForecast"
                  /\ UNCHANGED response
  /\ UNCHANGED cvars
  /\ UNCHANGED <<apiKey, city, unitsParam, units, forecastFetch, uvFetch,
                 hourlyForecast, uvIndex>>

----------------------------------------------------------------------------
(* The forecast call *)

\* number of forecast entries kept (24 hours at 3-hour intervals)
ForecastSlice == 8

\* the i-th entry of an upstream forecast list; `wellFormed` is FALSE when a
\* block the mapping dereferences (main, weather[0]) is missing
WindAt(i) ==
  CASE i % 5 = 0 -> NoNum
    [] i % 5 = 1 -> Num(27)
    [] i % 5 = 2 -> Num(0)
    [] i % 5 = 3 -> Num(15)
    [] OTHER     -> Num(100)
ForecastEntry(i, wellFormed) ==
  [wellFormed |-> wellFormed, dt |-> 1700000000 + 10800 * i, temp |-> 180 + 7 * i,
   humidity |-> 50 + i, main |-> "Rain", description |-> "light rain",
   icon |-> "10d", wind |-> WindAt(i), pop |-> 5 * i]
ForecastList(n, badAt) == [i \in 1..n |-> ForecastEntry(i, i # badAt)]

ForecastPayload(hasList, list) == [kind |-> "forecast", hasList |-> hasList, list |-> list]

ForecastOutcomes ==
  {NetworkError}
  \cup {Responded(s, TRUE, FALSE, [kind |-> "none"]) : s \in {200, 404, 500}}
  \cup {Responded(200, TRUE, TRUE, ForecastPayload(FALSE, <<>>))}
  \cup {Responded(200, TRUE, TRUE, ForecastPayload(TRUE, ForecastList(n, b))) :
          n \in 0..MaxForecastLen, b \in {0, 3, ForecastSlice + 1}}

\* a faulty variant of EntryWindSpeed: forgets the m/s to km/h factor
EntryWindSpeedNoFactor(wind, un) == MathRound(OrDefault(wind, 0), 10)

\* windSpeed of a forecast entry (wind in tenths)
EntryWindSpeed(wind, un) ==
  IF un = <<"imperial">> THEN MathRound(OrDefault(wind, 0), 10)
  ELSE MathRound(OrDefault(wind, 0) * 36, 100)

HourlyEntry(item, un) ==
  [time |-> item.dt, temperature |-> MathRound(item.temp, 10),
   condition |-> item.main, description |-> item.description,
   iconCode |-> item.icon, humidity |-> item.humidity,
   windSpeed |-> EntryWindSpeed(item.wind, un),
   precipitation |-> item.pop]

\* a faulty variant of Slice: keeps one entry too many
SliceOffByOne(list, n) == SubSeq(list, 1, Min(n + 1, Len(list)))

\* list.slice(0, n)
Slice(list, n) == SubSeq(list, 1, Min(n, Len(list)))

\* a faulty variant of HourlyFrom: entries are pushed one by one, so those mapped
\* before a malformed entry survive the exception
HourlyFromPartial(r, un) ==
  IF r.kind = "networkError" THEN [threw |-> TRUE, value |-> <<>>]
  ELSE IF ~Ok(r) THEN [threw |-> FALSE, value |-> <<>>]
  ELSE IF ~(r.readable /\ r.json) THEN [threw |-> TRUE, value |-> <<>>]
  ELSE IF ~r.data.hasList THEN [threw |-> TRUE, value |-> <<>>]
  ELSE LET first == Slice(r.data.list, ForecastSlice)
           good  == {i \in DOMAIN first : \A j \in 1..i : first[j].wellFormed}
       IN [threw |-> good # DOMAIN first,
           value |-> [i \in good |-> HourlyEntry(first[i], un)]]

\* the inner try block of the forecast: the value `hourlyForecast` ends with
\* and whether the catch block ran.  The assignment happens only after the
\* whole slice has been mapped, so an exception leaves the empty list.
HourlyFrom(r, un) ==
  IF r.kind = "networkError" THEN [threw |-> TRUE, value |-> <<>>]
  ELSE IF ~Ok(r) THEN [threw |-> FALSE, value |-> <<>>]
  ELSE IF ~(r.readable /\ r.json) THEN [threw |-> TRUE, value |-> <<>>]
  ELSE IF ~r.data.hasList THEN [threw |-> TRUE, value |-> <<>>]
  ELSE LET first == Slice(r.data.list, ForecastSlice)
       IN IF \E i \in DOMAIN first : ~first[i].wellFormed
          THEN [threw |-> TRUE, value |-> <<>>]
          ELSE [threw |-> FALSE,
                value |-> [i \in DOMAIN first |-> HourlyEntry(first[i], un)]]

----------------------------------------------------------------------------
(* The transform *)

\* top-level windSpeed (wind in tenths)
TopWindSpeed(wind, un) ==
  IF un = <<"imperial">> THEN MathRound(OrDefault(wind, 0), 10)
  ELSE MathRound(MathRound(OrDefault(wind, 0) * 36, 100), 1)

WindUnit(un) == IF un = <<"imperial">> THEN "mph" ELSE "km/h"

\* visibility (metres) to miles or km: Math.round((v || 10000) / (1609.34 | 1000))
Visibility(visibility, un) ==
  IF un = <<"imperial">> THEN MathRound(OrDefault(visibility, 10000) * 100, 160934)
  ELSE MathRound(OrDefault(visibility, 10000), 1000)

VisibilityUnit(un) == IF un = <<"imperial">> THEN "mi" ELSE "km"

TempUnit(un) == IF un = <<"imperial">> THEN "°F" ELSE "°C"

\* transformedData
Transform(wd, un, hourly, uv) ==
  [kind |-> "record", city |-> wd.name, country |-> wd.country,
   temperature |-> MathRound(wd.temp, 10), condition |-> wd.main,
   description |-> wd.description, humidity |-> wd.humidity,
   windSpeed |-> TopWindSpeed(wd.wind, un), windUnit |-> WindUnit(un),
   visibility |-> Visibility(wd.visibility, un),
   visibilityUnit |-> VisibilityUnit(un), pressure |-> wd.pressure,
   feelsLike |-> MathRound(wd.feels_like, 10), uvIndex |-> uv,
   icon |-> wd.main, iconCode |-> wd.icon, units |-> un,
   tempUnit |-> TempUnit(un), hourlyForecast |-> hourly]

\* GET, from the transform to the return (or to the outer catch when the
\* payload lacks a block the transform dereferences)
Respond(wd, un, hourly, uv, seen) ==
  /\ pc' = "done"
  /\ IF ~wd.complete
     THEN /\ response' = CatchAll
          /\ console' = Append(seen, Log("error", "Weather API error:",
                                         <<"TypeError: cannot read properties of undefined">>))
     ELSE /\ response' = NextResponseJson(Transform(wd, un, hourly, uv), 200)
          /\ console' = seen

\* a faulty variant of GET_ForecastResponse: a forecast that threw cancels
\* the UV request
GET_ForecastResponseSkipsUv ==
  /\ pc = "awaitForecast"
  /\ \E r \in ForecastOutcomes :
       LET hf   == HourlyFrom(r, units)
           seen == IF hf.threw
                   THEN Append(console, Log("warn", "Forecast fetch failed:", <<"Error">>))
                   ELSE console
       IN /\ forecastFetch' = r
          /\ hourlyForecast' = hf.value
          /\ IF ~weatherData.coord.present \/ hf.threw
             THEN /\ uvIndex' = 0
                  /\ UNCHANGED calls
                  /\ Respond(weatherData, units, hf.value, 0, seen)
             ELSE /\ calls' = Append(calls,
                        [endpoint |-> "uvi",
                         url |-> UvUrl(weatherData.coord.lat, weatherData.coord.lon,
                                       apiKey.text)])
                  /\ pc' = "awaitUV"
                  /\ console' = seen
                  /\ UNCHANGED <<response, uvIndex>>
  /\ UNCHANGED cvars
  /\ UNCHANGED <<apiKey, city, unitsParam, units, weatherFetch, weatherData, uvFetch>>

\* GET, from the settling of fetch(forecastUrl) to the await of the UV fetch;
\* when the payload has no coordinates building the UV URL throws inside the
\* UV try block, no request goes out and the handler runs to its return
GET_ForecastResponse ==
  /\ pc = "awaitForecast"
  /\ \E r \in ForecastOutcomes :
       LET hf   == HourlyFrom(r, units)
           seen == IF hf.threw
                   THEN Append(console, Log("warn", "Forecast fetch failed:", <<"Error">>))
                   ELSE console
       IN /\ forecastFetch' = r
          /\ hourlyForecast' = hf.value
          /\ IF ~weatherData.coord.present
             THEN /\ uvIndex' = 0
                  /\ UNCHANGED calls
                  /\ Respond(weatherData, units, hf.value, 0,
                             Append(seen, Log("warn", "UV index fetch failed:",
                                              <<"TypeError: cannot read properties of undefined">>)))
             ELSE /\ calls' = Append(calls,
                        [endpoint |-> "uvi",
                         url |-> UvUrl(weatherData.coord.lat, weatherData.coord.lon,
                                       apiKey.text)])
                  /\ pc' = "awaitUV"
                  /\ console' = seen
                  /\ UNCHANGED <<response, uvIndex>>
  /\ UNCHANGED cvars
  /\ UNCHANGED <<apiKey, city, unitsParam, units, weatherFetch, weatherData, uvFetch>>

----------------------------------------------------------------------------
(* The UV-index call *)

\* a UV payload: JSON null, or an object whose `value` may be missing
UvPayload(isNull, value) == [kind |-> "uv", isNull |-> isNull, value |-> value]

UvOutcomes ==
  {NetworkError}
  \cup {Responded(s, TRUE, FALSE, [kind |-> "none"]) : s \in {200, 401, 500}}
  \cup {Responded(200, TRUE, TRUE, UvPayload(TRUE, NoNum))}
  \cup {Responded(200, TRUE, TRUE, UvPayload(FALSE, v)) :
          v \in {NoNum, Num(0), Num(4), Num(65), Num(112)}}

\* a faulty variant of UvFrom: keeps the provider's status as the UV index on failure
UvFromStatus(r) ==
  IF r.kind = "response" /\ Ok(r) /\ r.readable /\ r.json /\ ~r.data.isNull
  THEN [threw |-> FALSE, value |-> MathRound(OrDefault(r.data.value, 0), 10)]
  ELSE [threw |-> FALSE, value |-> r.status]

\* the inner try block of the UV index: the value `uvIndex` ends with and
\* whether the catch block ran
UvFrom(r) ==
  IF r.kind = "networkError" THEN [threw |-> TRUE, value |-> 0]
  ELSE IF ~Ok(r) THEN [threw |-> FALSE, value |-> 0]
  ELSE IF ~(r.readable /\ r.json) THEN [threw |-> TRUE, value |-> 0]
  ELSE IF r.data.isNull THEN [threw |-> TRUE, value |-> 0]
  ELSE [threw |-> FALSE, value |-> MathRound(OrDefault(r.data.value, 0), 10)]

\* GET, from the settling of the UV fetch to the return
GET_UvResponse ==
  /\ pc = "awaitUV"
  /\ \E r \in UvOutcomes :
       LET uv   == UvFrom(r)
           seen == IF uv.threw
                   THEN Append(console, Log("warn", "UV index fetch failed:", <<"Error">>))
                   ELSE console
       IN /\ uvFetch' = r
          /\ uvIndex' = uv.value
          /\ Respond(weatherData, units, hourlyForecast, uv.value, seen)
  /\ UNCHANGED cvars
  /\ UNCHANGED <<apiKey, city, unitsParam, units, weatherFetch, weatherData,
                 forecastFetch, hourlyForecast, calls>>

----------------------------------------------------------------------------

Next ==
  \/ GET_Start
  \/ GET_WeatherResponse
  \/ GET_ForecastResponse
  \/ GET_UvResponse

Spec == Init /\ [][Next]_vars

----------------------------------------------------------------------------
(* The page component, WeatherApp *)

\* the handler's variables, untouched while the client is observed
hvars == <<apiKey, pc, city, unitsParam, units, weatherFetch, weatherData,
           forecastFetch, uvFetch, hourlyForecast, uvIndex, calls, console,
           response>>

\* texts the user types into the search box
SearchTexts ==
  {<<>>, <<" ">>, <<"R", "o", "m", "e">>, <<"R", "o", "m", "e", " ">>,
   <<"O", "s", "l", "o">>}

\* the record the service answers a query with: it echoes the handler's
\* `units`; `query` names the city it was fetched for
ServiceRecord(c, u) == [kind |-> "record", query |-> c, units |-> DefaultUnits(Str(<<u>>))]

ServiceReply(status, data) == [kind |-> "response", status |-> status, data |-> data]
ServiceUnreachable == [kind |-> "networkError", status |-> 0, data |-> NoRecord]

\* what fetch(`/api/weather?city=...&units=...`) can settle with: the
\* handler's precondition answer when it has one, else any of its answers
ServiceReplies(c, u) ==
  LET pre == Precondition(Str(c), apiKey)
  IN IF pre # NoResponse
     THEN {ServiceReply(pre.status, pre.body)}
     ELSE {ServiceUnreachable,
           ServiceReply(200, ServiceRecord(c, u)),
           ServiceReply(401, ErrorBody(E_UNAUTHORIZED)),
           ServiceReply(404, ErrorBody(E_NOT_FOUND)),
           ServiceReply(429, ErrorBody(E_RATE_LIMIT)),
           ServiceReply(500, ErrorBody(E_FETCH_FAILED))}

\* onChange of the search box
SetSearchQuery ==
  /\ \E t \in SearchTexts : t # searchQuery /\ searchQuery' = t
  /\ UNCHANGED <<uiWeatherData, isLoading, uiError, uiUnits, inflight, lastSearch>>
  /\ UNCHANGED hvars

\* handleSearch up to its await; the submit button is disabled while loading
\* or while the text is blank
HandleSearch ==
  /\ ~isLoading
  /\ Trim(searchQuery) # <<>>
  /\ isLoading' = TRUE
  /\ uiError' = <<>>
  /\ inflight' = [origin |-> "search", city |-> Trim(searchQuery), units |-> uiUnits,
                  typed |-> searchQuery]
  /\ lastSearch' = Str(Trim(searchQuery))
  /\ UNCHANGED <<searchQuery, uiWeatherData, uiUnits>>
  /\ UNCHANGED hvars

\* the error handleSearch shows for a non-ok reply
SearchError(reply, typed) ==
  IF reply.status = 401
  THEN <<"API authentication failed. Please check that your OpenWeatherMap API key is valid and activated.">>
  ELSE IF reply.status = 404
  THEN <<"City \"">> \o typed \o <<"\" not found. Please check the spelling and try again.">>
  ELSE IF reply.status = 429
  THEN <<"Too many requests. Please wait a moment and try again.">>
  ELSE IF reply.data.error # <<>> THEN reply.data.error
  ELSE <<"Failed to fetch weather data">>

\* handleSearch from the settling of its fetch to the end of `finally`
HandleSearchSettled ==
  /\ inflight.origin = "search"
  /\ \E reply \in ServiceReplies(inflight.city, inflight.units) :
       IF reply.kind = "networkError"
       THEN /\ uiError' = <<"Network error. Please check your internet connection and try again.">>
            /\ uiWeatherData' = NoRecord
       ELSE IF reply.status \notin 200..299
       THEN /\ uiError' = SearchError(reply, inflight.typed)
            /\ uiWeatherData' = NoRecord
       ELSE /\ uiWeatherData' = reply.data
            /\ uiError' = <<>>
  /\ isLoading' = FALSE
  /\ inflight' = NoRequest
  /\ UNCHANGED <<searchQuery, uiUnits, lastSearch>>
  /\ UNCHANGED hvars

\* toggleUnits up to its fetch; the toggle is disabled while loading
ToggleUnits ==
  /\ ~isLoading
  /\ LET newUnits == IF uiUnits = "imperial" THEN "metric" ELSE "imperial"
     IN /\ uiUnits' = newUnits
        /\ IF uiWeatherData # NoRecord /\ searchQuery # <<>>
           THEN /\ isLoading' = TRUE
                /\ inflight' = [origin |-> "toggle", city |-> Trim(searchQuery),
                                units |-> newUnits, typed |-> searchQuery]
           ELSE UNCHANGED <<isLoading, inflight>>
  /\ UNCHANGED <<searchQuery, uiWeatherData, uiError, lastSearch>>
  /\ UNCHANGED hvars

\* toggleUnits from the settling of its fetch to the end of `finally`
ToggleUnitsSettled ==
  /\ inflight.origin = "toggle"
  /\ \E reply \in ServiceReplies(inflight.city, inflight.units) :
       IF reply.kind = "networkError"
       THEN /\ uiError' = <<"Failed to convert units">>
            /\ UNCHANGED uiWeatherData
       ELSE IF reply.data.kind = "error"
       THEN /\ uiError' = reply.data.error
            /\ UNCHANGED uiWeatherData
       ELSE /\ uiWeatherData' = reply.data
            /\ UNCHANGED uiError
  /\ isLoading' = FALSE
  /\ inflight' = NoRequest
  /\ UNCHANGED <<searchQuery, uiUnits, lastSearch>>
  /\ UNCHANGED hvars

NextClient ==
  \/ SetSearchQuery
  \/ HandleSearch
  \/ HandleSearchSettled
  \/ ToggleUnits
  \/ ToggleUnitsSettled

SpecClient == Init /\ [][NextClient]_vars

----------------------------------------------------------------------------
(* Vocabulary of the properties *)

Done == pc = "done"
Imperial == units = <<"imperial">>
Metric == units = <<"metric">>
IsRecord == response.body.kind = "record"
IsError == response.body.kind = "error"

\* the credential is absent or not exactly KeyLen characters long
BadCredential == ~apiKey.present \/ Len(apiKey.text) # KeyLen

\* the city parameter is absent, empty, or empty after trimming
BlankCity == ~city.present \/ Trim(city.text) = <<>>

\* the mandatory call came back with a success status and a body that parsed
\* into a payload carrying every block the transform reads
WeatherSucceeded == weatherData.kind = "weather" /\ weatherData.complete

\* the forecast branch failed: rejected fetch, non-success status, a body that
\* does not parse, no list, or a malformed entry among the entries read
ForecastFailed ==
  /\ forecastFetch.kind # "none"
  /\ \/ forecastFetch.kind = "networkError"
     \/ ~Ok(forecastFetch)
     \/ ~(forecastFetch.readable /\ forecastFetch.json)
     \/ ~forecastFetch.data.hasList
     \/ \E i \in 1..Min(ForecastSlice, Len(forecastFetch.data.list)) :
          ~forecastFetch.data.list[i].wellFormed

\* the UV branch failed: no coordinates, rejected fetch, non-success status,
\* a body that does not parse into an object, or an object without a value
UvFailed ==
  /\ weatherData.kind = "weather"
  /\ \/ ~weatherData.coord.present
     \/ /\ uvFetch.kind # "none"
        /\ \/ uvFetch.kind = "networkError"
           \/ ~Ok(uvFetch)
           \/ ~(uvFetch.readable /\ uvFetch.json)
           \/ uvFetch.data.isNull
           \/ ~uvFetch.data.value.present

----------------------------------------------------------------------------
(* C1 *)

\* C1: a request whose city is absent, empty, or empty after trimming is
\* answered 400 with an error body, whatever the units and the credential.
C1_BlankCityIs400 ==
  (Done /\ BlankCity) => (response.status = 400 /\ IsError)

----------------------------------------------------------------------------
(* C2 *)

\* C2 as stated: with the credential absent or of the wrong length the answer
\* is 500 whatever the city (present or missing) and the units.
C2_BadCredentialIs500 ==
  (Done /\ BadCredential) => response.status = 500

\* C2 as amended: with the credential absent or of the wrong length the
\* answer is 500 (an error body, no upstream request) whenever the city is
\* present and non-empty, whatever the units; when the city is absent or
\* empty the answer is 400, the city check coming first.
C2_BadCredentialIs500GivenCity ==
  (Done /\ BadCredential) =>
     /\ IsError
     /\ calls = <<>>
     /\ response.status = IF Truthy(city) THEN 500 ELSE 400

C2_Witness ==
  /\ Done /\ BadCredential /\ apiKey.present /\ apiKey.text # <<>>
  /\ Truthy(city) /\ unitsParam = Str(<<"metric">>)
  /\ response.status = 500

----------------------------------------------------------------------------
(* C3 *)

\* C3: with the preconditions satisfied the status follows from the outcome
\* of the mandatory call alone: 401 gives 401, 404 gives 404 with a message
\* mentioning spelling, 429 gives 429, any other non-success status s gives
\* s, a transport or parsing failure gives 500, and the body is then only
\* the error envelope.
C3_StatusFromMandatoryCall ==
  (Done /\ ~BlankCity /\ weatherFetch.kind # "none" /\ ~WeatherSucceeded) =>
     /\ IsError
     /\ response.status =
          IF weatherFetch.kind = "response" /\ ~Ok(weatherFetch) /\ weatherFetch.readable
          THEN weatherFetch.status
          ELSE 500
     /\ response.status = 404 =>
          \E i \in DOMAIN response.body.error : response.body.error[i] = "spelling"

----------------------------------------------------------------------------
(* C4 *)

----------------------------------------------------------------------------
(* C5 *)

----------------------------------------------------------------------------
(* C6 *)

\* C6: in every 200 answer hourlyForecast has at most 8 entries; when the
\* forecast call succeeded with a list of n entries it has min(8, n)
\* entries, the i-th made from the i-th upstream entry, with its timestamp.
C6_FirstEightInOrder ==
  (Done /\ response.status = 200) =>
     /\ IsRecord
     /\ Len(response.body.hourlyForecast) <= 8
     /\ (forecastFetch.kind # "none" /\ ~ForecastFailed) =>
          LET list == forecastFetch.data.list
              hf   == response.body.hourlyForecast
          IN /\ Len(hf) = Min(8, Len(list))
             /\ \A i \in DOMAIN hf :
                  /\ hf[i].time = list[i].dt
                  /\ hf[i].humidity = list[i].humidity
                  /\ hf[i].temperature = MathRound(list[i].temp, 10)

C6_Witness ==
  /\ Done /\ response.status = 200 /\ ~ForecastFailed
  /\ Len(forecastFetch.data.list) > 8
  /\ Len(response.body.hourlyForecast) = 8

----------------------------------------------------------------------------
(* C7 *)

\* round(w) under imperial, round(w * 3.6) under metric, 0 for a missing
\* wind block (w in tenths)
ClaimedWind(wind, imperial) ==
  LET w == IF wind.present THEN wind.val ELSE 0
  IN IF imperial THEN (w + 5) \div 10 ELSE (w * 36 + 50) \div 100

\* C7: under imperial windSpeed is round(w) and windUnit "mph"; under metric
\* it is round(w * 3.6) and windUnit "km/h"; every hourlyForecast entry
\* follows the same rule; a missing wind block gives 0.
C7_WindConversion ==
  (Done /\ IsRecord /\ (Imperial \/ Metric)) =>
     /\ response.body.windSpeed = ClaimedWind(weatherData.wind, Imperial)
     /\ response.body.windUnit = IF Imperial THEN "mph" ELSE "km/h"
     /\ \A i \in DOMAIN response.body.hourlyForecast :
          response.body.hourlyForecast[i].windSpeed =
            ClaimedWind(forecastFetch.data.list[i].wind, Imperial)
     /\ ~weatherData.wind.present => response.body.windSpeed = 0

C7_Witness ==
  /\ Done /\ IsRecord /\ Metric
  /\ weatherData.wind = Num(100) /\ response.body.windSpeed = 36
  /\ Len(response.body.hourlyForecast) = 8
  /\ response.body.hourlyForecast[4].windSpeed = 36
  /\ response.body.hourlyForecast[5].windSpeed = 0

----------------------------------------------------------------------------
(* C8 *)

\* C8: for every upstream visibility v >= 0 metres, v = 0 included,
\* visibility is round(v / 1609.34) "mi" under imperial and round(v / 1000)
\* "km" under metric.
C8_VisibilityConversion ==
  (Done /\ ~BlankCity /\ IsRecord /\ (Imperial \/ Metric)
     /\ weatherData.visibility.present) =>
     LET v == weatherData.visibility.val
     IN /\ response.body.visibility =
             IF Imperial THEN (2 * v * 100 + 160934) \div (2 * 160934)
             ELSE (v + 500) \div 1000
        /\ response.body.visibilityUnit = IF Imperial THEN "mi" ELSE "km"

----------------------------------------------------------------------------
(* C9 *)

\* C9: no diagnostic message contains the raw credential, whatever the city
\* (a city spelling the credential included), the units and the upstream
\* outcomes.
C9_NoCredentialInConsole ==
  Truthy(apiKey) =>
     \A i \in DOMAIN console : ~Includes(console[i].text, apiKey.text)

----------------------------------------------------------------------------
(* C10 *)

\* C10: no upstream request goes out when the request ends in
\* MissingParameter or Misconfigured; the forecast and UV requests go out
\* only after the current-conditions call returned a success status and its
\* body was parsed, never when it failed; the UV request carries the lat/lon
\* of the current-conditions payload.
C10_CallsAreGated ==
  /\ (pc # "start" /\ (~Truthy(city) \/ BadCredential)) => calls = <<>>
  /\ (Done /\ IsError /\ response.body.error \in {E_CITY_REQUIRED, E_KEY_MISSING, E_KEY_FORMAT})
        => calls = <<>>
  /\ \A i \in DOMAIN calls :
       /\ calls[i].endpoint = "weather" <=> i = 1
       /\ calls[i].endpoint # "weather" =>
            /\ weatherFetch.kind = "response" /\ Ok(weatherFetch)
            /\ weatherFetch.readable /\ weatherFetch.json
            /\ weatherData = weatherFetch.data /\ weatherData.kind = "weather"
       /\ calls[i].endpoint = "uvi" =>
            /\ weatherData.coord.present
            /\ calls[i].url[3] = weatherData.coord.lat
            /\ calls[i].url[5] = weatherData.coord.lon
  /\ (weatherFetch.kind # "none" /\ weatherData.kind # "weather") => Len(calls) = 1

C10_Witness ==
  /\ pc = "awaitUV" /\ Len(calls) = 3
  /\ calls[2].endpoint = "forecast" /\ calls[3].endpoint = "uvi"
  /\ calls[3].url[3] = "-33.9" /\ calls[3].url[5] = "151.2"

----------------------------------------------------------------------------
(* C11 *)

\* number of outbound requests issued so far to an endpoint
CallCount(e) == Cardinality({i \in DOMAIN calls : calls[i].endpoint = e})

\* C11 as stated: each endpoint is requested at most once (at most three
\* calls), and whenever the current-conditions call succeeds the forecast
\* request and the UV request are each issued exactly once.
C11_EachEndpointExactlyOnce ==
  /\ Len(calls) <= 3
  /\ \A e \in {"weather", "forecast", "uvi"} : CallCount(e) <= 1
  /\ (Done /\ ~BlankCity /\ WeatherSucceeded) =>
       (CallCount("forecast") = 1 /\ CallCount("uvi") = 1)

\* C11 as amended: each endpoint is requested at most once (at most three
\* calls); whenever the current-conditions call returned a success status and
\* a parsed body, the forecast request is issued exactly once, and the UV
\* request exactly once when that payload carries coordinates and not at all
\* when it does not; each whatever the other branch did.
C11_EachEndpointAtMostOnce ==
  /\ Len(calls) <= 3
  /\ \A e \in {"weather", "forecast", "uvi"} : CallCount(e) <= 1
  /\ (Done /\ weatherData.kind = "weather") =>
       /\ CallCount("weather") = 1
       /\ CallCount("forecast") = 1
       /\ CallCount("uvi") = IF weatherData.coord.present THEN 1 ELSE 0

C11_Witness ==
  /\ Done /\ WeatherSucceeded /\ ForecastFailed
  /\ forecastFetch.kind = "networkError" /\ uvFetch.kind = "networkError"
  /\ Len(calls) = 3 /\ CallCount("uvi") = 1
  /\ response.status = 200

----------------------------------------------------------------------------
(* C12 *)

ImperialLabels ==
  /\ response.body.tempUnit = "°F"
  /\ response.body.windUnit = "mph"
  /\ response.body.visibilityUnit = "mi"

MetricLabels ==
  /\ response.body.tempUnit = "°C"
  /\ response.body.windUnit = "km/h"
  /\ response.body.visibilityUnit = "km"

\* C12: in every 200 answer the units field is "imperial" or "metric"
\* ("imperial" when the parameter is absent or empty) and the unit labels
\* agree with it, for every value of the units parameter a caller can send.
C12_UnitsAndLabelsAgree ==
  (Done /\ ~BlankCity /\ response.status = 200) =>
     /\ response.body.units \in {<<"imperial">>, <<"metric">>}
     /\ ~Truthy(unitsParam) => response.body.units = <<"imperial">>
     /\ response.body.units = <<"imperial">> <=> ImperialLabels
     /\ response.body.units = <<"metric">> <=> MetricLabels

----------------------------------------------------------------------------
(* C13 *)

\* C13: after any sequence of searches, edits of the search text and unit
\* toggles, whenever no request is in flight and a record is on display,
\* the record's units are the selected unit preference.
C13_DisplayedUnitsMatchPreference ==
  (~isLoading /\ inflight = NoRequest /\ uiWeatherData # NoRecord) =>
     uiWeatherData.units = <<uiUnits>>

----------------------------------------------------------------------------
(* C14 *)

\* C14: a unit toggle made while a record is on display refetches the
\* weather for the city of that record, so that, with no request in flight,
\* the record on display is always for the city of the last submitted
\* search.
C14_SettledCityIsLastSearch ==
  (inflight = NoRequest /\ uiWeatherData # NoRecord) =>
     (lastSearch.present /\ uiWeatherData.query = lastSearch.text)

====
